---- MODULE Spec2Model ----
(***************************************************************************)
(* Model of the CatboxRedis cache adapter (src/lib/index.js): an adapter   *)
(* around an injected connection handle (status, connect, get, set, del),  *)
(* with a key generator and a JSON envelope for stored values.             *)
(*                                                                         *)
(* JavaScript values are records of one shape, so that any two of them     *)
(* can be compared.  Strings are sequences of one-character strings, JSON  *)
(* text is a sequence of tokens; JSON.stringify and JSON.parse are a       *)
(* serializer to tokens and a parser of tokens.                            *)
(***************************************************************************)
EXTENDS Integers, Sequences, FiniteSets

\* ------------------------------------------------------------ JS values

Undefined == [t |-> "undefined", b |-> FALSE, n |-> 0, s |-> <<>>, o |-> <<>>, cyc |-> FALSE]

Null == [t |-> "null", b |-> FALSE, n |-> 0, s |-> <<>>, o |-> <<>>, cyc |-> FALSE]

Bool(x) == [t |-> "boolean", b |-> x, n |-> 0, s |-> <<>>, o |-> <<>>, cyc |-> FALSE]

Num(x) == [t |-> "number", b |-> FALSE, n |-> x, s |-> <<>>, o |-> <<>>, cyc |-> FALSE]

Str(x) == [t |-> "string", b |-> FALSE, n |-> 0, s |-> x, o |-> <<>>, cyc |-> FALSE]

\* An object: its own properties in insertion order, [name, val] each.
Obj(entries) == [t |-> "object", b |-> FALSE, n |-> 0, s |-> <<>>, o |-> entries, cyc |-> FALSE]

\* An object one of whose properties refers back to the object itself.
CyclicObj(entries) == [t |-> "object", b |-> FALSE, n |-> 0, s |-> <<>>, o |-> entries, cyc |-> TRUE]

Prop(name, val) == [name |-> name, val |-> val]

\* v.name: the property's value, undefined when v has none (a string or a
\* number has no such property either).  Reading a property of null or
\* undefined throws; callers test Nullish first.
GetProp(v, name) ==
  IF \E i \in 1..Len(v.o) : v.o[i].name = name
    THEN v.o[CHOOSE i \in 1..Len(v.o) : v.o[i].name = name /\ \A j \in (i+1)..Len(v.o) : v.o[j].name # name].val
    ELSE Undefined

Nullish(v) == v.t \in {"undefined", "null"}

\* ToBoolean: what !x negates.
Truthy(v) ==
  CASE v.t = "undefined" -> FALSE
    [] v.t = "null" -> FALSE
    [] v.t = "boolean" -> v.b
    [] v.t = "number" -> v.n # 0
    [] v.t = "string" -> v.s # <<>>
    [] OTHER -> TRUE

\* ------------------------------------------------------------ JSON text

Punct(c) == [k |-> c, n |-> 0, s |-> <<>>, w |-> ""]

TNum(x) == [k |-> "num", n |-> x, s |-> <<>>, w |-> ""]

TStr(x) == [k |-> "str", n |-> 0, s |-> x, w |-> ""]

\* true, false, null
TLit(w) == [k |-> "lit", n |-> 0, s |-> <<>>, w |-> w]

\* a property name in an object
TKey(w) == [k |-> "key", n |-> 0, s |-> <<>>, w |-> w]

\* a bare word that is no JSON literal, such as test
TWord(w) == [k |-> "word", n |-> 0, s |-> <<>>, w |-> w]

RECURSIVE HasCycle(_)
HasCycle(v) == v.cyc \/ \E i \in 1..Len(v.o) : HasCycle(v.o[i].val)

RECURSIVE Ser(_)
RECURSIVE SerProps(_, _, _)
\* The members of an object from property i on; a property whose value is
\* undefined is left out.
SerProps(o, i, first) ==
  IF i > Len(o) THEN <<>>
  ELSE IF o[i].val.t = "undefined" THEN SerProps(o, i + 1, first)
  ELSE (IF first THEN <<>> ELSE <<Punct(",")>>)
       \o <<TKey(o[i].name), Punct(":")>> \o Ser(o[i].val)
       \o SerProps(o, i + 1, FALSE)

Ser(v) ==
  CASE v.t = "number" -> <<TNum(v.n)>>
    [] v.t = "string" -> <<TStr(v.s)>>
    [] v.t = "boolean" -> <<TLit(IF v.b THEN "true" ELSE "false")>>
    [] v.t = "null" -> <<TLit("null")>>
    [] v.t = "object" -> <<Punct("{")>> \o SerProps(v.o, 1, TRUE) \o <<Punct("}")>>
    [] OTHER -> <<>>

\* A serializer that does not notice a reference cycle and cuts it short.
JSONstringifyUnchecked(v) == [ok |-> TRUE, text |-> Ser(v)]

\* JSON.stringify of an object: throws (ok = FALSE) on a reference cycle.
JSONstringify(v) ==
  IF HasCycle(v) THEN [ok |-> FALSE, text |-> <<>>]
  ELSE [ok |-> TRUE, text |-> Ser(v)]

ParseFail == [ok |-> FALSE, val |-> Undefined, next |-> 0]

RECURSIVE ParseValue(_, _)
RECURSIVE ParseMembers(_, _, _)
\* name : value { , name : value } "}" from token i on.
ParseMembers(toks, i, acc) ==
  IF i + 1 > Len(toks) \/ toks[i].k # "key" \/ toks[i + 1].k # ":" THEN ParseFail
  ELSE LET r == ParseValue(toks, i + 2) IN
    IF ~r.ok \/ r.next > Len(toks) THEN ParseFail
    ELSE LET more == Append(acc, Prop(toks[i].w, r.val)) IN
      CASE toks[r.next].k = "," -> ParseMembers(toks, r.next + 1, more)
        [] toks[r.next].k = "}" -> [ok |-> TRUE, val |-> Obj(more), next |-> r.next + 1]
        [] OTHER -> ParseFail

ParseValue(toks, i) ==
  IF i > Len(toks) THEN ParseFail
  ELSE LET tk == toks[i] IN
    CASE tk.k = "num" -> [ok |-> TRUE, val |-> Num(tk.n), next |-> i + 1]
      [] tk.k = "str" -> [ok |-> TRUE, val |-> Str(tk.s), next |-> i + 1]
      [] tk.k = "lit" /\ tk.w = "null" -> [ok |-> TRUE, val |-> Null, next |-> i + 1]
      [] tk.k = "lit" /\ tk.w # "null" -> [ok |-> TRUE, val |-> Bool(tk.w = "true"), next |-> i + 1]
      [] tk.k = "{" ->
           IF i + 1 <= Len(toks) /\ toks[i + 1].k = "}"
             THEN [ok |-> TRUE, val |-> Obj(<<>>), next |-> i + 2]
             ELSE ParseMembers(toks, i + 1, <<>>)
      [] OTHER -> ParseFail

\* JSON.parse: throws (ok = FALSE) unless the whole text is one value.
JSONparse(toks) ==
  LET r == ParseValue(toks, 1) IN
    IF r.ok /\ r.next = Len(toks) + 1 THEN [ok |-> TRUE, val |-> r.val]
    ELSE [ok |-> FALSE, val |-> Undefined]

\* ------------------------------------------------------------ keys

\* String(x) for the values a key's fields take.
StringOf(v) ==
  CASE v.t = "undefined" -> <<"u", "n", "d", "e", "f", "i", "n", "e", "d">>
    [] v.t = "null" -> <<"n", "u", "l", "l">>
    [] v.t = "string" -> v.s
    [] OTHER -> <<"?">>

\* An escape that lets the delimiter ':' stand as it is.
EncodeCharColonPlain(c) ==
  CASE c = "%" -> <<"%", "2", "5">>
    [] c = "/" -> <<"%", "2", "F">>
    [] c = " " -> <<"%", "2", "0">>
    [] OTHER -> <<c>>

\* The escape of one character: unreserved characters stand as they are.
EncodeChar(c) ==
  CASE c = ":" -> <<"%", "3", "A">>
    [] c = "%" -> <<"%", "2", "5">>
    [] c = "/" -> <<"%", "2", "F">>
    [] c = " " -> <<"%", "2", "0">>
    [] OTHER -> <<c>>

RECURSIVE EncodeChars(_)
EncodeChars(s) == IF s = <<>> THEN <<>> ELSE EncodeChar(Head(s)) \o EncodeChars(Tail(s))

encodeURIComponent(v) == EncodeChars(StringOf(v))

RECURSIVE Join(_)
\* parts.join(':')
Join(parts) ==
  IF parts = <<>> THEN <<>>
  ELSE IF Len(parts) = 1 THEN parts[1]
  ELSE parts[1] \o <<":">> \o Join(Tail(parts))

\* A key generator that puts the partition first even when there is none.
generateKeyAlwaysPartition(part, key) ==
  IF Nullish(key) THEN [ok |-> FALSE, key |-> <<>>]
  ELSE [ok |-> TRUE,
        key |-> Join(<<encodeURIComponent(part),
                       encodeURIComponent(GetProp(key, "segment")),
                       encodeURIComponent(GetProp(key, "id"))>>)]

\* A key generator that leaves the partition out.
generateKeyNoPartition(part, key) ==
  IF Nullish(key) THEN [ok |-> FALSE, key |-> <<>>]
  ELSE [ok |-> TRUE,
        key |-> Join(<<encodeURIComponent(GetProp(key, "segment")),
                       encodeURIComponent(GetProp(key, "id"))>>)]

\* generateKey(key) of an adapter with the given partition: throws a
\* TypeError (ok = FALSE) when key is null or undefined.
generateKey(part, key) ==
  IF Nullish(key) THEN [ok |-> FALSE, key |-> <<>>]
  ELSE [ok |-> TRUE,
        key |-> Join((IF Truthy(part) THEN <<encodeURIComponent(part)>> ELSE <<>>)
                     \o <<encodeURIComponent(GetProp(key, "segment")),
                          encodeURIComponent(GetProp(key, "id"))>>)]

\* ------------------------------------------------------------ bounds and inputs

\* Concurrent callers of the adapter.
NumCallers == 2

\* Calls made on the adapter in one behaviour.
MaxCalls == 2

\* Writes of other writers to the store in one behaviour.
MaxForeign == 1

\* Clock advances in one behaviour.
MaxTicks == 1

\* Date.now() when the adapter is constructed (milliseconds, positive).
StartTime == 5

\* The clock advances by a few milliseconds or by a second.
TickSteps == {2, 1000}

Callers == 1..NumCallers

Statuses == {"wait", "connecting", "ready", "close", "end"}

\* The status of the injected handle when the adapter is constructed: a
\* lazily connecting handle, one still connecting, one already connected.
InitialStatuses == {"wait", "connecting", "ready"}

\* The errors a command sent to the store fails with: an error reply, and the
\* connection lost before the reply.
RemoteErrors == {"ReplyError", "Connection is closed."}

FooPartition == Str(<<"f", "o", "o">>)

\* The partition the adapter is constructed with.
Partitions == {FooPartition}

\* { id: 'x', segment: 'test' }
TestKey == Obj(<<Prop("id", Str(<<"x">>)), Prop("segment", Str(<<"t", "e", "s", "t">>))>>)

\* null, {} and a valid key
KeyInputs == {Null, Obj(<<>>), TestKey}

PlainObj == Obj(<<Prop("a", Num(1))>>)

\* value.b = value
SelfRefObj == CyclicObj(<<Prop("a", Num(1))>>)

ValueInputs == {Num(0), Bool(FALSE), Str(<<>>), Str(<<"y">>), PlainObj, SelfRefObj}

TtlInputs == {-1, 0, 1, 1000, 1999, 2500}

\* set(key, value, ttl) inputs: each argument varied against fixed others.
SetInputs ==
  {<<TestKey, v, 2500>> : v \in ValueInputs}
    \cup {<<TestKey, Str(<<"y">>), ttl>> : ttl \in TtlInputs}
    \cup {<<k, Str(<<"y">>), 1000>> : k \in KeyInputs}

\* The storage key the tests read and write.
TestStorageKey(part) == generateKey(part, TestKey).key

\* The storage keys an adapter with this partition can address.
AddressableKeys(part) == {generateKey(part, k).key : k \in {k \in KeyInputs : ~Nullish(k)}}

StoreKeys == UNION {AddressableKeys(part) : part \in Partitions}

\* Raw texts another writer may leave in the store: '', 'test',
\* '{"item":"false"}', '{"stored":"123"}', '0', '{"item":null,"stored":7}'.
ForeignTexts ==
  { <<>>,
    <<TWord("test")>>,
    <<Punct("{"), TKey("item"), Punct(":"), TStr(<<"f", "a", "l", "s", "e">>), Punct("}")>>,
    <<Punct("{"), TKey("stored"), Punct(":"), TStr(<<"1", "2", "3">>), Punct("}")>>,
    <<TNum(0)>>,
    <<Punct("{"), TKey("item"), Punct(":"), TLit("null"), Punct(","), TKey("stored"), Punct(":"), TNum(7), Punct("}")>> }

\* ------------------------------------------------------------ state

VARIABLES
  status,     \* client.status of the injected handle
  client,     \* this.client: "handle" (the injected handle) or "null"
  partition,  \* this.partition
  store,      \* the remote store: storage key -> entry
  now,        \* Date.now()
  ticks,      \* clock advances so far
  calls,      \* calls made on the adapter so far
  foreign,    \* writes of other writers so far
  connects,   \* connect() calls the adapter has issued on the handle
  pc,         \* per caller: "idle", "awaiting" (suspended at an await), "done"
  call,       \* per caller: the call in progress
  result,     \* per caller: how the call settled
  written     \* history: storage key -> the value the adapter last set there,
              \* by which caller, and whether that set() has settled

vars == <<status, client, partition, store, now, ticks, calls, foreign, connects, pc, call, result, written>>

NoEntry == [present |-> FALSE, text |-> <<>>, expireAt |-> 0]

NoRemote == [cmd |-> "none", key |-> <<>>, text |-> <<>>, ex |-> 0]

NoReply == [some |-> FALSE, text |-> <<>>, n |-> 0, err |-> ""]

NoValue == [has |-> FALSE, val |-> Undefined, ttl |-> 0, by |-> 0, settled |-> FALSE]

NoCall ==
  [op |-> "none", key |-> Undefined, value |-> Undefined, ttl |-> 0,
   remote |-> NoRemote, reply |-> NoReply, expect |-> NoValue]

NoResult == [kind |-> "none", err |-> "", val |-> Undefined]

Resolved(v) == [kind |-> "resolved", err |-> "", val |-> v]

Rejected(e) == [kind |-> "rejected", err |-> e, val |-> Undefined]

Init ==
  /\ status \in InitialStatuses
  /\ client = "handle"
  /\ partition \in Partitions
  /\ store = [k \in StoreKeys |-> NoEntry]
  /\ now = StartTime
  /\ ticks = 0
  /\ calls = 0
  /\ foreign = 0
  /\ connects = 0
  /\ pc = [p \in Callers |-> "idle"]
  /\ call = [p \in Callers |-> NoCall]
  /\ result = [p \in Callers |-> NoResult]
  /\ written = [k \in StoreKeys |-> NoValue]

\* ------------------------------------------------------------ the handle

\* connect() of the handle: it rejects when the handle is already connecting
\* or connected, and otherwise sets its status to connecting before it
\* returns the pending promise.
HandleConnect(st) ==
  IF st \in {"connecting", "ready"}
    THEN [status |-> st, rejected |-> TRUE]
    ELSE [status |-> "connecting", rejected |-> FALSE]

\* Whether the store still holds the entry at time t.
Live(e, t) == e.present /\ (e.expireAt < 0 \/ t < e.expireAt)

\* get(storageKey) of the handle: the text, or null.
RemoteGet(st, k, t) ==
  IF Live(st[k], t) THEN [some |-> TRUE, text |-> st[k].text, n |-> 0, err |-> ""] ELSE NoReply

\* set(storageKey, text, 'ex', seconds) of the handle.
RemoteSet(st, k, text, ex, t) ==
  [st EXCEPT ![k] = [present |-> TRUE, text |-> text, expireAt |-> t + ex * 1000]]

\* del(storageKey) of the handle: the number of keys removed.
RemoteDel(st, k) == [st EXCEPT ![k] = NoEntry]

\* ------------------------------------------------------------ the adapter

Max(a, b) == IF a >= b THEN a ELSE b

\* How a call settles.
Settle(p, c, r) ==
  /\ pc' = [pc EXCEPT ![p] = "done"]
  /\ call' = [call EXCEPT ![p] = c]
  /\ result' = [result EXCEPT ![p] = r]

\* The call is suspended at its await.
Suspend(p, c) ==
  /\ pc' = [pc EXCEPT ![p] = "awaiting"]
  /\ call' = [call EXCEPT ![p] = c]
  /\ UNCHANGED result

\* A caller that is not inside a call makes one.
Invoke(p) ==
  /\ pc[p] = "idle"
  /\ calls < MaxCalls
  /\ calls' = calls + 1

\* A readiness test that takes every status but 'end' for ready.
isReadyUnlessEnded(st) == st # "end"

\* isReady(): this.client.status === 'ready'
isReady(st) == st = "ready"

\* A start() that returns at once only when the handle is ready.
NeedsConnectUnlessReady(st) == st # "ready"

\* start() goes on to connect() only from the status 'wait'.
NeedsConnect(st) == st = "wait"

\* An expiry without the floor of one second.
ExpirySecondsNoFloor(ttl) == ttl \div 1000

\* The expiry in seconds that set() asks for.
ExpirySeconds(ttl) == Max(1, ttl \div 1000)

\* { item: value, stored: Date.now(), ttl }
Envelope(value, t, ttl) ==
  Obj(<<Prop("item", value), Prop("stored", Num(t)), Prop("ttl", Num(ttl))>>)

\* What get() makes of the handle's reply.
Decode(reply) ==
  IF ~reply.some \/ reply.text = <<>> THEN Resolved(Null)
  ELSE LET parsed == JSONparse(reply.text)
           envelope == IF parsed.ok THEN parsed.val ELSE Null
           item == GetProp(envelope, "item")
       IN IF ~Truthy(envelope) THEN Rejected("Bad envelope content")
          ELSE IF (~Truthy(item) /\ item # Num(0)) \/ ~Truthy(GetProp(envelope, "stored"))
            THEN Rejected("Incorrect envelope structure")
          ELSE Resolved(envelope)

\* start(): returns at once unless the status is 'wait'; else connect() is
\* issued and awaited.
StartCall(p) ==
  /\ Invoke(p)
  /\ LET c == [NoCall EXCEPT !.op = "start"]
         h == HandleConnect(status)
     IN IF ~NeedsConnect(status)
          THEN /\ Settle(p, c, Resolved(Undefined))
               /\ UNCHANGED <<status, connects>>
          ELSE /\ connects' = connects + 1
               /\ status' = h.status
               /\ IF h.rejected
                    THEN Settle(p, [c EXCEPT !.remote.cmd = "connect"],
                                Rejected("Redis is already connecting/connected"))
                    ELSE Suspend(p, [c EXCEPT !.remote.cmd = "connect"])
  /\ UNCHANGED <<client, partition, store, now, ticks, foreign, written>>

\* A stop() that quits the handle, as an adapter owning its connection would.
StopCallQuit(p) ==
  /\ Invoke(p)
  /\ status' = "end"
  /\ Settle(p, [NoCall EXCEPT !.op = "stop", !.remote.cmd = "quit"], Resolved(Undefined))
  /\ UNCHANGED <<client, partition, store, now, ticks, foreign, connects, written>>

\* stop(): nothing.
StopCall(p) ==
  /\ Invoke(p)
  /\ Settle(p, [NoCall EXCEPT !.op = "stop"], Resolved(Undefined))
  /\ UNCHANGED <<status, client, partition, store, now, ticks, foreign, connects, written>>

\* A get() that builds the storage key before it tests readiness.
GetCallKeyFirst(p, key) ==
  /\ Invoke(p)
  /\ LET c == [NoCall EXCEPT !.op = "get", !.key = key]
         gk == generateKey(partition, key)
     IN IF ~gk.ok THEN Settle(p, c, Rejected("TypeError"))
        ELSE IF ~isReady(status) THEN Settle(p, c, Rejected("NotConnectedError"))
        ELSE Suspend(p, [c EXCEPT !.remote = [NoRemote EXCEPT !.cmd = "get", !.key = gk.key],
                                  !.reply = RemoteGet(store, gk.key, now),
                                  !.expect = IF Live(store[gk.key], now) /\ written[gk.key].settled
                                              THEN written[gk.key] ELSE NoValue])
  /\ UNCHANGED <<status, client, partition, store, now, ticks, foreign, connects, written>>

\* get(key) up to its await.
GetCall(p, key) ==
  /\ Invoke(p)
  /\ LET c == [NoCall EXCEPT !.op = "get", !.key = key]
         gk == generateKey(partition, key)
     IN IF ~isReady(status) THEN Settle(p, c, Rejected("NotConnectedError"))
        ELSE IF ~gk.ok THEN Settle(p, c, Rejected("TypeError"))
        ELSE Suspend(p, [c EXCEPT !.remote = [NoRemote EXCEPT !.cmd = "get", !.key = gk.key],
                                  !.reply = RemoteGet(store, gk.key, now),
                                  !.expect = IF Live(store[gk.key], now) /\ written[gk.key].settled
                                              THEN written[gk.key] ELSE NoValue])
  /\ UNCHANGED <<status, client, partition, store, now, ticks, foreign, connects, written>>

\* get(key) from the handle's reply on.
GetDone(p) ==
  /\ pc[p] = "awaiting"
  /\ call[p].op = "get"
  /\ Settle(p, call[p], Decode(call[p].reply))
  /\ UNCHANGED <<status, client, partition, store, now, ticks, calls, foreign, connects, written>>

\* set(key, value, ttl) up to its await.
SetCall(p, key, value, ttl) ==
  /\ Invoke(p)
  /\ LET c == [NoCall EXCEPT !.op = "set", !.key = key, !.value = value, !.ttl = ttl]
         gk == generateKey(partition, key)
         js == JSONstringify(Envelope(value, now, ttl))
         ex == ExpirySeconds(ttl)
     IN IF ~isReady(status) \/ ~gk.ok \/ ~js.ok
          THEN /\ Settle(p, c, Rejected(IF ~isReady(status) THEN "NotConnectedError"
                                        ELSE IF ~gk.ok THEN "TypeError"
                                        ELSE "Converting circular structure to JSON"))
               /\ UNCHANGED <<store, written>>
          ELSE /\ Suspend(p, [c EXCEPT !.remote = [cmd |-> "set", key |-> gk.key, text |-> js.text, ex |-> ex]])
               /\ store' = RemoteSet(store, gk.key, js.text, ex, now)
               /\ written' = [written EXCEPT ![gk.key] = [has |-> TRUE, val |-> value, ttl |-> ttl, by |-> p, settled |-> FALSE]]
  /\ UNCHANGED <<status, client, partition, now, ticks, foreign, connects>>

\* set(key, value, ttl) from the handle's reply on.
SetDone(p) ==
  /\ pc[p] = "awaiting"
  /\ call[p].op = "set"
  /\ Settle(p, call[p], Resolved(Undefined))
  /\ LET k == call[p].remote.key
     IN written' = IF written[k].has /\ written[k].by = p
                     THEN [written EXCEPT ![k].settled = TRUE] ELSE written
  /\ UNCHANGED <<status, client, partition, store, now, ticks, calls, foreign, connects>>

\* drop(key) up to the handle's del().
DropCall(p, key) ==
  /\ Invoke(p)
  /\ LET c == [NoCall EXCEPT !.op = "drop", !.key = key]
         gk == generateKey(partition, key)
     IN IF ~isReady(status) \/ ~gk.ok
          THEN /\ Settle(p, c, Rejected(IF ~isReady(status) THEN "NotConnectedError" ELSE "TypeError"))
               /\ UNCHANGED <<store, written>>
          ELSE /\ Suspend(p, [c EXCEPT !.remote = [NoRemote EXCEPT !.cmd = "del", !.key = gk.key],
                                       !.reply = [NoReply EXCEPT !.n = IF Live(store[gk.key], now) THEN 1 ELSE 0]])
               /\ store' = RemoteDel(store, gk.key)
               /\ written' = [written EXCEPT ![gk.key] = NoValue]
  /\ UNCHANGED <<status, client, partition, now, ticks, foreign, connects>>

\* A drop() that takes a del() that removed nothing for a failure.
DropDoneStrict(p) ==
  /\ pc[p] = "awaiting"
  /\ call[p].op = "drop"
  /\ Settle(p, call[p], IF call[p].reply.n = 0 THEN Rejected("Not found")
                        ELSE Resolved(Num(call[p].reply.n)))
  /\ UNCHANGED <<status, client, partition, store, now, ticks, calls, foreign, connects, written>>

\* drop(key) settles as del() did.
DropDone(p) ==
  /\ pc[p] = "awaiting"
  /\ call[p].op = "drop"
  /\ Settle(p, call[p], Resolved(Num(call[p].reply.n)))
  /\ UNCHANGED <<status, client, partition, store, now, ticks, calls, foreign, connects, written>>

\* A rethrow that puts an error of the adapter's in place of the handle's.
RethrowWrapped(e) == Rejected("Error")

\* An await of the handle that rejects: the method rejects with that error.
Rethrow(e) == Rejected(e)

\* get, set or drop when the handle's promise rejects with e: the command had
\* been sent, and the store may have executed it.
RemoteFail(p, e) ==
  /\ pc[p] = "awaiting"
  /\ call[p].op \in {"get", "set", "drop"}
  /\ Settle(p, [call[p] EXCEPT !.reply = [NoReply EXCEPT !.err = e]], Rethrow(e))
  /\ UNCHANGED <<status, client, partition, store, now, ticks, calls, foreign, connects, written>>

\* The caller takes the outcome and is free to call again.
Return(p) ==
  /\ pc[p] = "done"
  /\ pc' = [pc EXCEPT ![p] = "idle"]
  /\ call' = [call EXCEPT ![p] = NoCall]
  /\ result' = [result EXCEPT ![p] = NoResult]
  /\ UNCHANGED <<status, client, partition, store, now, ticks, calls, foreign, connects, written>>

\* ------------------------------------------------------------ the environment

\* A start() that takes a failed connect() for a completed one.
StartOutcomeSwallowed(r) == Resolved(Undefined)

\* start() after its await: it settles as connect() did.
StartOutcome(r) == r

\* The callers suspended in start(), at await this.client.connect().
Connecting == {p \in Callers : pc[p] = "awaiting" /\ call[p].op = "start"}

\* The handle becomes ready: connect() resolves and start() returns.
HandleReady ==
  /\ status = "connecting"
  /\ status' = "ready"
  /\ pc' = [p \in Callers |-> IF p \in Connecting THEN "done" ELSE pc[p]]
  /\ result' = [p \in Callers |-> IF p \in Connecting THEN StartOutcome(Resolved(Undefined)) ELSE result[p]]
  /\ UNCHANGED <<client, partition, store, now, ticks, calls, foreign, connects, call, written>>

\* The connection attempt fails: connect() rejects and so does start().
HandleConnectError ==
  /\ status = "connecting"
  /\ status' = "close"
  /\ pc' = [p \in Callers |-> IF p \in Connecting THEN "done" ELSE pc[p]]
  /\ result' = [p \in Callers |-> IF p \in Connecting THEN StartOutcome(Rejected("Connection is closed.")) ELSE result[p]]
  /\ UNCHANGED <<client, partition, store, now, ticks, calls, foreign, connects, call, written>>

\* An established connection is lost.
HandleClose ==
  /\ status = "ready"
  /\ status' = "close"
  /\ UNCHANGED <<client, partition, store, now, ticks, calls, foreign, connects, pc, call, result, written>>

\* The handle retries on its own, or gives up.
HandleRetry ==
  /\ status = "close"
  /\ status' \in {"connecting", "end"}
  /\ UNCHANGED <<client, partition, store, now, ticks, calls, foreign, connects, pc, call, result, written>>

Tick(d) ==
  /\ ticks < MaxTicks
  /\ ticks' = ticks + 1
  /\ now' = now + d
  /\ UNCHANGED <<status, client, partition, store, calls, foreign, connects, pc, call, result, written>>

\* Another writer of the store leaves a raw text under the key the adapter
\* reads.
ForeignWrite(k, text) ==
  /\ foreign < MaxForeign
  /\ foreign' = foreign + 1
  /\ store' = [store EXCEPT ![k] = [present |-> TRUE, text |-> text, expireAt |-> -1]]
  /\ written' = [written EXCEPT ![k] = NoValue]
  /\ store' # store
  /\ UNCHANGED <<status, client, partition, now, ticks, calls, connects, pc, call, result>>

Next ==
  \/ \E p \in Callers : StartCall(p)
  \/ \E p \in Callers : StopCall(p)
  \/ \E p \in Callers, key \in KeyInputs : GetCall(p, key)
  \/ \E p \in Callers : GetDone(p)
  \/ \E p \in Callers, in \in SetInputs : SetCall(p, in[1], in[2], in[3])
  \/ \E p \in Callers : SetDone(p)
  \/ \E p \in Callers, key \in KeyInputs : DropCall(p, key)
  \/ \E p \in Callers : DropDone(p)
  \/ \E p \in Callers : Return(p)
  \/ HandleReady
  \/ HandleConnectError
  \/ HandleClose
  \/ HandleRetry
  \/ \E d \in TickSteps : Tick(d)
  \/ \E text \in ForeignTexts : ForeignWrite(TestStorageKey(partition), text)

Spec == Init /\ [][Next]_vars

\* ------------------------------------------------------------ a store that fails

\* A ready adapter over a handle whose commands may fail.
FaultInit == Init /\ status = "ready"

FaultNext ==
  \/ \E p \in Callers, key \in KeyInputs : GetCall(p, key)
  \/ \E p \in Callers : GetDone(p)
  \/ \E p \in Callers, in \in SetInputs : SetCall(p, in[1], in[2], in[3])
  \/ \E p \in Callers : SetDone(p)
  \/ \E p \in Callers, key \in KeyInputs : DropCall(p, key)
  \/ \E p \in Callers : DropDone(p)
  \/ \E p \in Callers, e \in RemoteErrors : RemoteFail(p, e)
  \/ \E p \in Callers : Return(p)
  \/ HandleClose

FaultSpec == FaultInit /\ [][FaultNext]_vars

\* ------------------------------------------------------------ key generation alone

\* The longest segment or id of the keys handed to generateKey.
MaxKeyLen == 2

\* A plain character, the delimiter and the escape character.
KeyChars == {"a", ":", "%"}

RECURSIVE StringsUpTo(_)
\* The strings of at most n characters.
StringsUpTo(n) ==
  IF n = 0 THEN {<<>>}
  ELSE LET shorter == StringsUpTo(n - 1)
       IN shorter \cup {Append(s, c) : s \in shorter, c \in KeyChars}

\* { id, segment }
CacheKey(segment, id) == Obj(<<Prop("id", Str(id)), Prop("segment", Str(segment))>>)

\* { id: 'bar', segment: 'baz' }
BazBarKey == CacheKey(<<"b", "a", "z">>, <<"b", "a", "r">>)

\* Segments and ids are not empty.
KeyStrings == StringsUpTo(MaxKeyLen) \ {<<>>}

CacheKeys == {CacheKey(segment, id) : segment \in KeyStrings, id \in KeyStrings} \cup {BazBarKey}

\* An adapter without a partition, and one with the partition 'foo'.
KeyPartitions == {Undefined, FooPartition}

KeyInit ==
  /\ status \in InitialStatuses
  /\ client = "handle"
  /\ partition \in KeyPartitions
  /\ store = [k \in StoreKeys |-> NoEntry]
  /\ now = StartTime
  /\ ticks = 0
  /\ calls = 0
  /\ foreign = 0
  /\ connects = 0
  /\ pc = [p \in Callers |-> "idle"]
  /\ call = [p \in Callers |-> NoCall]
  /\ result = [p \in Callers |-> NoResult]
  /\ written = [k \in StoreKeys |-> NoValue]

\* generateKey(key), called on the adapter directly: it returns the storage
\* key, or throws.
GenerateKeyCall(p, key) ==
  /\ Invoke(p)
  /\ LET gk == generateKey(partition, key)
     IN Settle(p, [NoCall EXCEPT !.op = "generateKey", !.key = key],
               IF gk.ok THEN Resolved(Str(gk.key)) ELSE Rejected("TypeError"))
  /\ UNCHANGED <<status, client, partition, store, now, ticks, foreign, connects, written>>

KeyNext ==
  \E p \in Callers, key \in CacheKeys \cup {Null} : GenerateKeyCall(p, key)

KeySpec == KeyInit /\ [][KeyNext]_vars

\* ------------------------------------------------------------ adapters that share a store

\* { id: 'test:x', segment: 'foo' }: without a partition its components spell
\* what those of TestKey spell under the partition 'foo'.
FooSegmentKey == CacheKey(<<"f", "o", "o">>, <<"t", "e", "s", "t", ":", "x">>)

\* Two valid keys and one without segment and id.
SharedKeys == {TestKey, FooSegmentKey, Obj(<<>>)}

\* No partition, 'foo' and 'bar'.
SharedPartitions == {Undefined, FooPartition, Str(<<"b", "a", "r">>)}

SharedStoreKeys == {generateKey(part, k).key : part \in SharedPartitions, k \in SharedKeys}

SharedSetInputs == {<<k, v, 2500>> : k \in SharedKeys, v \in {Str(<<"y">>), PlainObj}}

\* Adapters constructed over one ready handle, one per partition.
SharedInit ==
  /\ status = "ready"
  /\ client = "handle"
  /\ partition \in SharedPartitions
  /\ store = [k \in SharedStoreKeys |-> NoEntry]
  /\ now = StartTime
  /\ ticks = 0
  /\ calls = 0
  /\ foreign = 0
  /\ connects = 0
  /\ pc = [p \in Callers |-> "idle"]
  /\ call = [p \in Callers |-> NoCall]
  /\ result = [p \in Callers |-> NoResult]
  /\ written = [k \in SharedStoreKeys |-> NoValue]

\* The callers turn to the adapter constructed with this partition over the
\* same handle.  An adapter holds its handle and its partition and nothing
\* else, so the partition of the adapter called is all that changes.
UseAdapter(part) ==
  /\ part # partition
  /\ partition' = part
  /\ UNCHANGED <<status, client, store, now, ticks, calls, foreign, connects, pc, call, result, written>>

SharedNext ==
  \/ \E part \in SharedPartitions : UseAdapter(part)
  \/ \E p \in Callers, key \in SharedKeys : GetCall(p, key)
  \/ \E p \in Callers : GetDone(p)
  \/ \E p \in Callers, in \in SharedSetInputs : SetCall(p, in[1], in[2], in[3])
  \/ \E p \in Callers : SetDone(p)
  \/ \E p \in Callers, key \in SharedKeys : DropCall(p, key)
  \/ \E p \in Callers : DropDone(p)
  \/ \E p \in Callers : Return(p)

SharedSpec == SharedInit /\ [][SharedNext]_vars

\* ------------------------------------------------------------ claims

DataOps == {"get", "set", "drop"}

\* Caller p makes a call in this step.
Invoked(p) == pc[p] = "idle" /\ pc'[p] # "idle"

\* Caller p's call settles in this step.
Settled(p) == pc[p] # "done" /\ pc'[p] = "done"

\* A key with a string segment and a string id.
ValidKey(k) == ~Nullish(k) /\ GetProp(k, "segment").t = "string" /\ GetProp(k, "id").t = "string"

C2_SingleConnect ==
  [][connects' # connects => (connects = 0 /\ connects' = 1 /\ status = "wait")]_vars

C2_Witness ==
  \E p, q \in Callers :
    /\ p # q
    /\ call[p].op = "start" /\ pc[p] = "awaiting"
    /\ call[q].op = "start" /\ pc[q] = "done"
    /\ connects = 1

\* C3: when start() is invoked twice on an adapter whose connection can
\* succeed, the handle is ready at the moment each of the two calls completes.
C3_StartCompletesReady ==
  [][\A p \in Callers :
       (Settled(p) /\ call'[p].op = "start" /\ result'[p].kind = "resolved"
          /\ connects' = 1 /\ status' \in {"connecting", "ready"})
         => isReady(status')]_vars

\* C4: on a ready adapter, set(k, v, ttl) with a valid key, a non-null value
\* and a positive ttl, followed by get(k) before expiry with no set or drop of
\* k between, resolves to an envelope whose item equals v.
C4_RoundTrip ==
  \A p \in Callers :
    (pc[p] = "done" /\ call[p].op = "get" /\ ValidKey(call[p].key)
       /\ call[p].expect.has /\ ~Nullish(call[p].expect.val) /\ call[p].expect.ttl > 0)
      => /\ result[p].kind = "resolved"
         /\ GetProp(result[p].val, "item") = call[p].expect.val

\* C5: on a ready adapter, set(k, v, ttl) with ttl <= 0 issues no remote set,
\* leaves the store unchanged and resolves.
C5_NonPositiveTtlNoop ==
  [][\A p \in Callers :
       (Invoked(p) /\ call'[p].op = "set" /\ call'[p].ttl <= 0 /\ status = "ready"
          /\ ValidKey(call'[p].key))
         => /\ call'[p].remote = NoRemote
            /\ store' = store
            /\ result'[p].kind # "rejected"]_vars

\* C6: for every positive ttl, a set() that reaches the handle asks for an
\* expiry of max(1, floor(ttl / 1000)) seconds: at least 1, exactly 1 below
\* two seconds, and otherwise the whole seconds of ttl.
C6_ExpiryFloor ==
  [][\A p \in Callers :
       (Invoked(p) /\ call'[p].op = "set" /\ call'[p].ttl > 0 /\ status = "ready"
          /\ ValidKey(call'[p].key) /\ ~HasCycle(call'[p].value))
         => LET ex == call'[p].remote.ex
                ttl == call'[p].ttl
            IN /\ call'[p].remote.cmd = "set"
               /\ ex >= 1
               /\ (ttl < 2000 => ex = 1)
               /\ (ttl >= 1000 => (ex * 1000 <= ttl /\ ttl < (ex + 1) * 1000))
               /\ store'[call'[p].remote.key].expireAt = now + ex * 1000]_vars

C6_Witness ==
  \E p \in Callers :
    /\ pc[p] = "done"
    /\ call[p].op = "set"
    /\ call[p].ttl = 1
    /\ call[p].remote.cmd = "set"
    /\ call[p].remote.ex = 1
    /\ result[p].kind = "resolved"

\* Whether v has a property of this name, whatever its value.
HasProp(v, name) == \E i \in 1..Len(v.o) : v.o[i].name = name

\* What the claim has get() make of the handle's reply.
ClaimedDecode(reply) ==
  IF ~reply.some \/ reply.text = <<>> THEN Resolved(Null)
  ELSE LET parsed == JSONparse(reply.text) IN
    IF ~parsed.ok \/ ~Truthy(parsed.val) THEN Rejected("Bad envelope content")
    ELSE IF ~HasProp(parsed.val, "item") \/ ~Truthy(GetProp(parsed.val, "stored"))
      THEN Rejected("Incorrect envelope structure")
    ELSE Resolved(parsed.val)

\* C7: get() resolves to null on an empty or absent text, rejects with 'Bad
\* envelope content' on a text that does not parse or parses to a falsy value,
\* rejects with 'Incorrect envelope structure' on a record with no item field
\* or a falsy stored field, and otherwise returns the parsed envelope.
C7_Classification ==
  \A p \in Callers :
    (pc[p] = "done" /\ call[p].op = "get" /\ call[p].remote.cmd = "get")
      => result[p] = ClaimedDecode(call[p].reply)

\* C8: on a ready adapter, get, set and drop with a present but invalid key
\* (segment or id missing) reject, and issue no remote call.
C8_InvalidKeyRejected ==
  [][\A p \in Callers :
       (Invoked(p) /\ call'[p].op \in DataOps /\ status = "ready"
          /\ ~Nullish(call'[p].key) /\ ~ValidKey(call'[p].key))
         => /\ pc'[p] = "done"
            /\ result'[p].kind = "rejected"
            /\ call'[p].remote = NoRemote]_vars

\* C9: on a ready adapter, get(null) resolves to null, without an error and
\* without a remote get.
C9_NullKeyShortcut ==
  [][\A p \in Callers :
       (Invoked(p) /\ call'[p].op = "get" /\ call'[p].key = Null /\ status = "ready")
         => /\ pc'[p] = "done"
            /\ result'[p] = Resolved(Null)
            /\ call'[p].remote = NoRemote]_vars

C11_StoppedNotReady ==
  [][\A p \in Callers :
       /\ (Invoked(p) /\ call'[p].op = "stop") => ~isReady(status')
       /\ \A q \in Callers :
            (pc[q] = "done" /\ call[q].op = "stop" /\ calls = 1
               /\ Invoked(p) /\ call'[p].op \in DataOps)
              => /\ pc'[p] = "done"
                 /\ result'[p] = Rejected("NotConnectedError")]_vars

\* The storage key caller p's generateKey call returned.
KeyOf(p) == result[p].val.s

GeneratedKey(p) == pc[p] = "done" /\ call[p].op = "generateKey" /\ result[p].kind = "resolved"

\* C12: under one partition, two keys that differ in segment or id get
\* different storage keys, also when they contain ':' or '%', and the same key
\* gets the same storage key.
C12_KeyInjective ==
  \A p, q \in Callers :
    (GeneratedKey(p) /\ GeneratedKey(q))
      => (KeyOf(p) = KeyOf(q)
            <=> /\ GetProp(call[p].key, "segment") = GetProp(call[q].key, "segment")
                /\ GetProp(call[p].key, "id") = GetProp(call[q].key, "id"))

C12_Witness ==
  \E p, q \in Callers :
    /\ GeneratedKey(p) /\ GeneratedKey(q)
    /\ call[p].key = CacheKey(<<"a", ":">>, <<"a">>)
    /\ call[q].key = CacheKey(<<"a">>, <<":", "a">>)
    /\ partition = FooPartition
    /\ KeyOf(p) # KeyOf(q)

\* C13: when the connect() that a start() issued from the status 'wait' fails,
\* that start() rejects with the handle's connection error, one connect() has
\* been issued and no more, and isReady() is false.
C13_ConnectFailure ==
  [][\A p \in Callers :
       (pc[p] = "awaiting" /\ call[p].op = "start" /\ status = "connecting" /\ status' = "close")
         => /\ pc'[p] = "done"
            /\ result'[p] = Rejected("Connection is closed.")
            /\ connects' = 1
            /\ ~isReady(status')]_vars

C13_Witness ==
  \E p \in Callers :
    /\ pc[p] = "done"
    /\ call[p].op = "start"
    /\ call[p].remote.cmd = "connect"
    /\ result[p] = Rejected("Connection is closed.")
    /\ connects = 1
    /\ status = "close"

\* C14: when the handle's get, set or del fails, the get, set or drop that
\* issued it rejects with that very error, and issues no further command.
C14_RemoteErrorPassesThrough ==
  [][\A p \in Callers :
       (pc[p] = "awaiting" /\ call[p].op \in DataOps /\ call'[p].reply.err # "")
         => /\ pc'[p] = "done"
            /\ result'[p] = Rejected(call'[p].reply.err)
            /\ call'[p].remote = call[p].remote
            /\ store' = store]_vars

C14_Witness ==
  \E p, q \in Callers :
    /\ pc[p] = "done" /\ call[p].op = "get" /\ call[p].remote.cmd = "get"
    /\ result[p] = Rejected("ReplyError")
    /\ pc[q] = "done" /\ call[q].op = "set" /\ call[q].remote.cmd = "set"
    /\ result[q] = Rejected("Connection is closed.")

\* C15: on a ready adapter, set(k, v, ttl) with a valid key and a value that
\* contains a reference cycle rejects with the serializer's error, issues no
\* remote set, and leaves the store (so also what is stored at k) as it was.
C15_CircularValueRejected ==
  [][\A p \in Callers :
       (Invoked(p) /\ call'[p].op = "set" /\ HasCycle(call'[p].value)
          /\ status = "ready" /\ ValidKey(call'[p].key))
         => /\ pc'[p] = "done"
            /\ result'[p] = Rejected("Converting circular structure to JSON")
            /\ call'[p].remote = NoRemote
            /\ store' = store]_vars

C15_Witness ==
  \E p \in Callers :
    /\ pc[p] = "done"
    /\ call[p].op = "set"
    /\ call[p].value = SelfRefObj
    /\ result[p] = Rejected("Converting circular structure to JSON")
    /\ Live(store[generateKey(partition, call[p].key).key], now)
    /\ written[generateKey(partition, call[p].key).key].val = Str(<<"y">>)

\* A get of storage key k would be answered with null.
Absent(st, k, t) == RemoteGet(st, k, t) = NoReply

\* A set() sends its command for storage key k in this step.
SetIssued(k) ==
  \E p \in Callers :
    Invoked(p) /\ call'[p].op = "set" /\ call'[p].remote.cmd = "set" /\ call'[p].remote.key = k

\* C16: on a ready adapter, drop(k) with a valid key removes what is stored at
\* k and resolves whether or not anything was stored; from then on k stays
\* absent until a set() of k (or another writer) stores there, and a get(k)
\* that finds k absent resolves to null.
C16_DropThenAbsent ==
  [][/\ \A p \in Callers :
          (Invoked(p) /\ call'[p].op = "drop" /\ status = "ready" /\ ValidKey(call'[p].key))
            => /\ call'[p].remote.cmd = "del"
               /\ call'[p].remote.key = generateKey(partition, call'[p].key).key
               /\ Absent(store', call'[p].remote.key, now)
     /\ \A p \in Callers :
          (pc[p] = "awaiting" /\ call[p].op = "drop" /\ Settled(p))
            => result'[p].kind = "resolved"
     /\ \A k \in StoreKeys :
          (Absent(store, k, now) /\ ~SetIssued(k) /\ foreign' = foreign)
            => Absent(store', k, now')
     /\ \A p \in Callers :
          (Invoked(p) /\ call'[p].op = "get" /\ status = "ready" /\ ValidKey(call'[p].key)
             /\ Absent(store, generateKey(partition, call'[p].key).key, now))
            => call'[p].reply = NoReply
     /\ \A p \in Callers :
          (pc[p] = "awaiting" /\ call[p].op = "get" /\ call[p].reply = NoReply /\ Settled(p))
            => result'[p] = Resolved(Null)]_vars

C16_Witness ==
  \E p, q \in Callers :
    /\ pc[q] = "done" /\ call[q].op = "drop" /\ call[q].key = TestKey
    /\ result[q] = Resolved(Num(1))
    /\ pc[p] = "done" /\ call[p].op = "get" /\ call[p].key = TestKey
    /\ result[p] = Resolved(Null)
    /\ foreign = 1

\* C17: a set or drop through the adapter of one partition changes the answer
\* to no get through an adapter of another partition (or of none), whatever
\* the key.
C17_PartitionIsolation ==
  [][(\E p \in Callers : Invoked(p) /\ call'[p].op \in {"set", "drop"})
       => \A other \in SharedPartitions \ {partition}, key \in SharedKeys :
            LET k == generateKey(other, key).key
            IN /\ RemoteGet(store', k, now') = RemoteGet(store, k, now)
               /\ Decode(RemoteGet(store', k, now')) = Decode(RemoteGet(store, k, now))]_vars

C17_Witness ==
  \E p, q \in Callers :
    /\ p # q
    /\ pc[p] = "done" /\ call[p].op = "set" /\ call[p].key = FooSegmentKey
    /\ call[p].value = PlainObj
    /\ call[p].remote.key = generateKey(Undefined, FooSegmentKey).key
    /\ pc[q] = "done" /\ call[q].op = "set" /\ call[q].key = TestKey
    /\ call[q].value = Str(<<"y">>)
    /\ call[q].remote.key = generateKey(FooPartition, TestKey).key
    /\ Live(store[call[p].remote.key], now)
    /\ Live(store[call[q].remote.key], now)
    /\ store[call[p].remote.key].text # store[call[q].remote.key].text

\* Date.now() of the set() that wrote the envelope stored at k.
StoredAt(k) == GetProp(JSONparse(store[k].text).val, "stored").n

ClaimedKey(part, key) ==
  (IF part = Undefined THEN <<>> ELSE EncodeChars(part.s) \o <<":">>)
    \o EncodeChars(GetProp(key, "segment").s) \o <<":">> \o EncodeChars(GetProp(key, "id").s)

\* C19: generateKey returns the escaped partition (only when one is
\* configured), segment and id, in this order, joined with ':': 'foo:baz:bar'
\* for { segment: 'baz', id: 'bar' } under the partition 'foo', 'baz:bar'
\* under none; whatever the handle's status.
C19_KeyFormat ==
  \A p \in Callers :
    GeneratedKey(p)
      => /\ KeyOf(p) = ClaimedKey(partition, call[p].key)
         /\ (call[p].key = BazBarKey /\ partition = FooPartition)
              => KeyOf(p) = <<"f", "o", "o", ":", "b", "a", "z", ":", "b", "a", "r">>
         /\ (call[p].key = BazBarKey /\ partition = Undefined)
              => KeyOf(p) = <<"b", "a", "z", ":", "b", "a", "r">>

C19_Witness ==
  \E p, q \in Callers :
    /\ GeneratedKey(p) /\ call[p].key = BazBarKey
    /\ partition = Undefined
    /\ KeyOf(p) = <<"b", "a", "z", ":", "b", "a", "r">>
    /\ GeneratedKey(q) /\ call[q].key = CacheKey(<<"a", ":">>, <<"%">>)
    /\ KeyOf(q) = <<"a", "%", "3", "A", ":", "%", "2", "5">>
    /\ status = "connecting"

====
